---- MODULE Spec2Model ----
(***************************************************************************)
(* LINE webhook -> Obsidian vault: the append-and-sync pipeline of         *)
(* src/src/handler.ts (topic file layout, writeMessageToFile) and of its   *)
(* timeline-by-date iteration src/unnamed/part_001 (checkForDuplicates +   *)
(* writeToFile), run by concurrent invocations against one git remote.     *)
(*                                                                         *)
(* Text is a sequence of one-character strings.  A date ("YYYY-MM-DD"), a  *)
(* clock time ("HH:mm") and the section header ("## Timeline") are each    *)
(* one token of that alphabet: d0, d1, ... / t0, t1 / #.                   *)
(***************************************************************************)
EXTENDS Naturals, Integers, Sequences, FiniteSets, TLC

VARIABLES
    layout,        \* which iteration of the handler is deployed: "topic" | "timeline"
                   \*   | "early" (the timeline iteration of part_002, lines 94-250)
                   \*   | "marker" (the iteration of part_002, lines 253-449)
    now,           \* Date.now(), the process clock in milliseconds
    remote,        \* the remote repository: [head, files]
    pc,            \* per invocation: the await it is suspended at
    event,         \* per invocation: the request main was called with
    req,           \* per invocation: the text message being handled
    dir,           \* per invocation: repoDir chosen by setupGitRepository (-1: none yet)
    wc,            \* per invocation: content of the target file in the working copy
    base,          \* per invocation: the remote head the local branch contains
    baseFile,      \* per invocation: target file content at that remote head
    pushAttempts,  \* per invocation: the counter of pushWithRetry
    thrown,        \* per invocation: the error that reached main's catch
    outcome,       \* per invocation: the HTTP result returned by main
    ops,           \* per invocation: the external calls made so far, in order
    cloned,        \* per invocation: target file content the clone delivered
    isDuplicate,   \* per invocation: the result of the duplicate check
    pushed,        \* per invocation: target file content its push published
    committed,     \* per invocation: the files staged and the message of its commit
    delays,        \* per invocation: the backoff waits of pushWithRetry, in milliseconds
    mfile,         \* merge harness: the target file
    mlog,          \* merge harness: the merges run so far, newest last
    fmt            \* formatter harness: a text, a timestamp and the lines made of them

vars == <<layout, event, now, remote, pc, req, dir, wc, base, baseFile, pushAttempts,
          thrown, outcome, ops, cloned, isDuplicate, pushed, committed, delays,
          mfile, mlog, fmt>>

pipeVars == <<event, now, remote, pc, req, dir, wc, base, baseFile, pushAttempts,
              thrown, outcome, ops, cloned, isDuplicate, pushed, committed, delays>>

mergeVars == <<mfile, mlog, fmt>>

----------------------------------------------------------------------------
(* Bounds of the model *)

NumInv == 2
MaxClock == 1
MaxMerges == 3
MaxOtherPushes == 1

(* Program constants *)

MAX_PUSH_ATTEMPTS == 3
RETRY_DELAY_MS == 1000

----------------------------------------------------------------------------
(* Text *)

NL == "\n"
SP == " "
Absent == <<"absent">>
HEADER == <<"#", NL>>

Layouts == {"topic", "timeline"}
RawTexts == {<<"a">>, <<"a", "b">>, <<SP, "b">>}
Timestamps == {0, 1, 2}
DateTok == <<"d0", "d1", "d2">>
TimeTok == <<"t0", "t1">>

IsWs(c) == c \in {SP, NL}

RECURSIVE TrimStart(_)
TrimStart(s) ==
    IF s # <<>> /\ IsWs(Head(s)) THEN TrimStart(Tail(s)) ELSE s

RECURSIVE TrimEnd(_)
TrimEnd(s) ==
    IF s # <<>> /\ IsWs(s[Len(s)]) THEN TrimEnd(SubSeq(s, 1, Len(s) - 1)) ELSE s

Trim(s) == TrimEnd(TrimStart(s))

MatchAt(s, sub, k) ==
    /\ k + Len(sub) - 1 <= Len(s)
    /\ \A j \in 1..Len(sub) : s[k + j - 1] = sub[j]

Includes(s, sub) == \E k \in 1..(Len(s) + 1) : MatchAt(s, sub, k)

EndsWithNL(s) == s # <<>> /\ s[Len(s)] = NL

RECURSIVE Split(_)
Split(s) ==
    LET at == {k \in 1..Len(s) : s[k] = NL}
    IN  IF at = {} THEN <<s>>
        ELSE LET k == CHOOSE m \in at : \A n \in at : m <= n
             IN  <<SubSeq(s, 1, k - 1)>> \o Split(SubSeq(s, k + 1, Len(s)))

RECURSIVE Join(_)
Join(lines) ==
    IF lines = <<>> THEN <<>>
    ELSE IF Len(lines) = 1 THEN lines[1]
    ELSE lines[1] \o <<NL>> \o Join(Tail(lines))

(* mutant: the date line is never found *)
FindIndexNever(lines, dateStr) == -1

(* Array.prototype.findIndex: 0-based, -1 when no element matches *)
FindIndex(lines, dateStr) ==
    LET hits == {k \in 1..Len(lines) : Trim(lines[k]) = dateStr}
    IN  IF hits = {} THEN -1
        ELSE (CHOOSE m \in hits : \A n \in hits : m <= n) - 1

(* Array.prototype.splice(at, 0, line): insert before 0-based index at *)
Splice(lines, at, line) ==
    SubSeq(lines, 1, at) \o <<line>> \o SubSeq(lines, at + 1, Len(lines))

----------------------------------------------------------------------------
(* Timestamp formatter: two clock minutes per calendar day *)

DateStr(ts) == <<DateTok[(ts \div 2) + 1]>>
TimeStr(ts) == <<TimeTok[(ts % 2) + 1]>>

----------------------------------------------------------------------------
(* Messages and target files *)

Messages == [text : RawTexts, ts : Timestamps]

(* a LINE text message may span several lines, and a line of it may be a   *)
(* date                                                                    *)
MergeTexts == RawTexts \cup {<<"a", NL, "b">>, <<"b", NL, "d1">>}
MergeMessages == [text : MergeTexts, ts : Timestamps]

Paths == {"topic"} \cup {DateStr(ts)[1] : ts \in Timestamps}

(* setupGitRepository: the topic file, or the diary file of the date *)
TargetPath(ts) == IF layout = "topic" THEN "topic" ELSE DateStr(ts)[1]

(* main: const text = lineEvent.message.text.trim() *)
MainText(m) == Trim(m.text)

EmptyVault == [p \in Paths |-> Absent]

(* Files the remote may hold before the first invocation *)
InitVaults ==
    IF layout = "topic"
    THEN {EmptyVault,
          [EmptyVault EXCEPT !["topic"] = <<"d0", NL, "-", SP, "a", "b", NL>>]}
    ELSE {EmptyVault,
          [EmptyVault EXCEPT !["d0"] = <<"#", NL, "-", SP, "t0", SP, "a", "b">>]}

(* Further starting files for the merge engine alone *)
MergeInitVaults ==
    InitVaults \cup
    (IF layout = "topic"
     THEN {[EmptyVault EXCEPT !["topic"] = f] :
              f \in {<<>>, <<"d0">>, <<SP, "d1", SP, NL, "-", SP, "b">>,
                     <<SP, "d1", NL, "-", SP, "c", NL, "d1", NL>>,
                     <<"d1", NL, "-", SP, "b", NL, NL, "d0", NL, "-", SP, "a", NL>>}}
     ELSE {[EmptyVault EXCEPT !["d0"] = f] :
              f \in {<<>>, <<SP>>, <<NL>>, <<"#", NL>>,
                     <<"#", NL, "-", SP, "t1", SP, "b", NL>>}})

----------------------------------------------------------------------------
(* Merge engine, topic layout: writeMessageToFile of src/src/handler.ts *)

TopicLine(text) == <<"-", SP>> \o text

(* mutant: the duplicate check looks for the line with its line break *)
TopicIsDuplicateWithBreak(existingContent, line) ==
    Includes(existingContent, line \o <<NL>>)

TopicIsDuplicate(existingContent, line) == Includes(existingContent, line)

(* mutant: a date that is not found gets its block at the end of the file *)
TopicNewContentAtEnd(existingContent, line, dateStr) ==
    LET lines == Split(existingContent)
        dateIndex == FindIndex(lines, dateStr)
    IN  IF dateIndex # -1
        THEN Join(Splice(lines, dateIndex + 1, line))
        ELSE existingContent \o dateStr \o <<NL>> \o line \o <<NL, NL>>

(* mutant: the entry is spliced in at the date line, not after it *)
TopicNewContentAtDate(existingContent, line, dateStr) ==
    LET lines == Split(existingContent)
        dateIndex == FindIndex(lines, dateStr)
    IN  IF dateIndex # -1
        THEN Join(Splice(lines, dateIndex, line))
        ELSE dateStr \o <<NL>> \o line \o <<NL, NL>> \o existingContent

TopicNewContent(existingContent, line, dateStr) ==
    LET lines == Split(existingContent)
        dateIndex == FindIndex(lines, dateStr)
    IN  IF dateIndex # -1
        THEN Join(Splice(lines, dateIndex + 1, line))
        ELSE dateStr \o <<NL>> \o line \o <<NL, NL>> \o existingContent

TopicCreated(line, dateStr) == dateStr \o <<NL>> \o line \o <<NL>>

(* Merge engine, timeline layout: checkForDuplicates and writeToFile of    *)
(* src/unnamed/part_001                                                    *)

TimelineLine(text, ts) == <<"-", SP>> \o TimeStr(ts) \o <<SP>> \o text \o <<NL>>

TimelineIsDuplicate(existingContent, line) == Includes(existingContent, Trim(line))

NeedsNewline(existingContent) ==
    Trim(existingContent) # <<>> /\ ~EndsWithNL(existingContent)

(* The entry line of a message under the deployed layout *)
EntryLine(m) ==
    IF layout = "topic" THEN TopicLine(MainText(m))
    ELSE TimelineLine(MainText(m), m.ts)

IsDuplicate(existingContent, m) ==
    IF layout = "topic" THEN TopicIsDuplicate(existingContent, EntryLine(m))
    ELSE TimelineIsDuplicate(existingContent, EntryLine(m))

(* The whole merge when no filesystem call fails: [dup, file] *)
MergeFile(file, m) ==
    IF file = Absent
    THEN [dup |-> FALSE,
          file |-> IF layout = "topic"
                   THEN TopicCreated(EntryLine(m), DateStr(m.ts))
                   ELSE HEADER \o EntryLine(m)]
    ELSE IF IsDuplicate(file, m)
    THEN [dup |-> TRUE, file |-> file]
    ELSE [dup |-> FALSE,
          file |-> IF layout = "topic"
                   THEN TopicNewContent(file, EntryLine(m), DateStr(m.ts))
                   ELSE (IF NeedsNewline(file) THEN file \o <<NL>> ELSE file)
                        \o EntryLine(m)]

----------------------------------------------------------------------------
(* The git capability behind repo.pull(): a three-way merge of the target  *)
(* file by lines.  Insertions at different places of the base merge        *)
(* cleanly, an identical change on both sides is taken once, and anything  *)
(* else is a conflict, which makes the pull fail.                          *)

Conflict == <<"conflict">>

RECURSIVE GitLines(_)
GitLines(s) ==
    LET at == {k \in 1..Len(s) : s[k] = NL}
    IN  IF s = <<>> THEN <<>>
        ELSE IF at = {} THEN <<s>>
        ELSE LET k == CHOOSE m \in at : \A n \in at : m <= n
             IN  <<SubSeq(s, 1, k)>> \o GitLines(SubSeq(s, k + 1, Len(s)))

RECURSIVE Flatten(_)
Flatten(lines) == IF lines = <<>> THEN <<>> ELSE lines[1] \o Flatten(Tail(lines))

(* The blocks x inserts before, between and after the lines of b *)
RECURSIVE Gaps(_, _)
Gaps(b, x) ==
    IF b = <<>> THEN [ok |-> TRUE, blocks |-> <<x>>]
    ELSE LET hits == {k \in 1..Len(x) : x[k] = b[1]}
         IN  IF hits = {} THEN [ok |-> FALSE, blocks |-> <<>>]
             ELSE LET k == CHOOSE m \in hits : \A n \in hits : m <= n
                      rest == Gaps(Tail(b), SubSeq(x, k + 1, Len(x)))
                  IN  [ok |-> rest.ok,
                       blocks |-> <<SubSeq(x, 1, k - 1)>> \o rest.blocks]

MergeLines(b, o, t) ==
    LET go == Gaps(b, o)
        gt == Gaps(b, t)
        clash(j) == /\ go.blocks[j] # <<>>
                    /\ gt.blocks[j] # <<>>
                    /\ go.blocks[j] # gt.blocks[j]
        pick(j) == IF go.blocks[j] # <<>> THEN go.blocks[j] ELSE gt.blocks[j]
        piece(j) == Flatten(pick(j)) \o (IF j <= Len(b) THEN b[j] ELSE <<>>)
    IN  IF ~go.ok \/ ~gt.ok THEN Conflict
        ELSE IF \E j \in 1..(Len(b) + 1) : clash(j) THEN Conflict
        ELSE Flatten([j \in 1..(Len(b) + 1) |-> piece(j)])

Merge3(baseContent, ours, theirs) ==
    IF theirs = baseContent THEN ours
    ELSE IF ours = theirs THEN ours
    ELSE IF ours = baseContent THEN theirs
    ELSE IF Absent \in {baseContent, ours, theirs} THEN Conflict
    ELSE MergeLines(GitLines(baseContent), GitLines(ours), GitLines(theirs))

----------------------------------------------------------------------------
(* Invocations of main *)

Invocations == 1..NumInv

NoMsg == [text |-> <<>>, ts |-> 0]
NoDir == -1
NoError == [op |-> "none", attempt |-> 0]
NoCommit == [files |-> {}, message |-> <<>>]
Unformatted == <<"unformatted">>
NoFormat == [text |-> <<>>, ts |-> 0, line |-> Unformatted]
Err(op) == [op |-> op, attempt |-> 0]
PushErr(n) == [op |-> "push", attempt |-> n]

Pending == [statusCode |-> 0, body |-> "pending"]
Processed == [statusCode |-> 200, body |-> "Message processed successfully"]
Ignored == [statusCode |-> 200, body |-> "Event ignored - not a text message"]
MissingInput == [statusCode |-> 400, body |-> "Missing required headers or body"]
InvalidSignature == [statusCode |-> 401, body |-> "Invalid signature"]
Failed == [statusCode |-> 500, body |-> "Failed to process webhook"]

(* The results of the early iteration's main *)
Ok == [statusCode |-> 200, body |-> "OK"]
IgnoreNonText == [statusCode |-> 200, body |-> "Ignore non-text"]
MissingSignatureOrBody == [statusCode |-> 400, body |-> "Missing signature or body"]
BadSignature == [statusCode |-> 401, body |-> "Bad Signature"]
InternalServerError == [statusCode |-> 500, body |-> "Internal Server Error"]

(* The events a webhook body carries: the first one decides *)
EventKinds == {"follow", "image", "text"}
Events == [type : {"follow"}, msg : {NoMsg}]
          \cup [type : {"image"}, msg : {NoMsg}]
          \cup [type : {"text"}, msg : Messages]
FirstText == [type |-> "text", msg |-> [text |-> <<"a">>, ts |-> 0]]
LaterText == [type |-> "text", msg |-> [text |-> <<"a", "b">>, ts |-> 2]]
EventLists == {<<>>} \cup {<<e>> : e \in Events}
              \cup {<<e, FirstText>> : e \in Events \ [type : {"text"}, msg : Messages]}
              \cup {<<FirstText, [type |-> "follow", msg |-> NoMsg]>>}
              \cup {<<FirstText, LaterText>>}
(* x-line-signature: absent, not the HMAC of the body, or the HMAC of the  *)
(* body; event.body: absent, not JSON, or a JSON webhook body              *)
Requests == [signature : {"none", "bad", "good"},
             body : {"none", "malformed"},
             events : {<<>>}]
            \cup [signature : {"none", "bad", "good"},
                  body : {"json"},
                  events : EventLists]
NoEvent == [signature |-> "none", body |-> "unset", events |-> <<>>]

Target(i) == TargetPath(req[i].ts)

(* The commit message: `LINE ${dateStr}` in handler.ts, `LINE ${dateStr}   *)
(* ${timeStr}` in the timeline iterations                                  *)
CommitMessage(ts) ==
    IF layout = "topic" THEN <<"LINE", SP>> \o DateStr(ts)
    ELSE <<"LINE", SP>> \o DateStr(ts) \o <<SP>> \o TimeStr(ts)

PipeInit ==
    /\ now = 0
    /\ remote.head = 0
    /\ pc = [i \in Invocations |-> "idle"]
    /\ event = [i \in Invocations |-> NoEvent]
    /\ req = [i \in Invocations |-> NoMsg]
    /\ dir = [i \in Invocations |-> NoDir]
    /\ wc = [i \in Invocations |-> Absent]
    /\ base = [i \in Invocations |-> 0]
    /\ baseFile = [i \in Invocations |-> Absent]
    /\ pushAttempts = [i \in Invocations |-> 0]
    /\ thrown = [i \in Invocations |-> NoError]
    /\ outcome = [i \in Invocations |-> Pending]
    /\ ops = [i \in Invocations |-> <<>>]
    /\ cloned = [i \in Invocations |-> Absent]
    /\ isDuplicate = [i \in Invocations |-> FALSE]
    /\ pushed = [i \in Invocations |-> Absent]
    /\ committed = [i \in Invocations |-> NoCommit]
    /\ delays = [i \in Invocations |-> <<>>]

MergeIdle == mfile = EmptyVault /\ mlog = <<>> /\ fmt = NoFormat

Init ==
    /\ layout \in Layouts
    /\ remote \in [head : {0}, files : InitVaults]
    /\ PipeInit
    /\ MergeIdle

(* One await of invocation i resolves: it logs the call and moves on *)
Goto(i, op, next) ==
    /\ pc' = [pc EXCEPT ![i] = next]
    /\ ops' = [ops EXCEPT ![i] = Append(@, op)]

(* What invocation i has called so far *)
Ran(i, op) == \E k \in 1..Len(ops[i]) : ops[i][k] = op
Count(i, S) == Cardinality({k \in 1..Len(ops[i]) : ops[i][k] \in S})

(* main returns *)
Return(i, result) == outcome' = [outcome EXCEPT ![i] = result]

(* An error propagates to main's catch: HTTP 500 *)
Throw(i, op, error) ==
    /\ Goto(i, op, "done")
    /\ thrown' = [thrown EXCEPT ![i] = error]
    /\ Return(i, IF layout = "early" THEN InternalServerError ELSE Failed)

(* main deciding on the first event's presence only *)
ReceiveAnyFirstEvent(i) ==
    /\ pc[i] = "idle"
    /\ \A j \in Invocations : j < i => pc[j] # "idle"
    /\ \E r \in Requests :
          /\ event' = [event EXCEPT ![i] = r]
          /\ IF r.signature = "none" \/ r.body = "none"
             THEN /\ pc' = [pc EXCEPT ![i] = "done"]
                  /\ Return(i, MissingInput)
                  /\ UNCHANGED <<req, thrown>>
             ELSE IF r.signature # "good"
             THEN /\ pc' = [pc EXCEPT ![i] = "done"]
                  /\ Return(i, InvalidSignature)
                  /\ UNCHANGED <<req, thrown>>
             ELSE IF r.body = "malformed"
             THEN /\ pc' = [pc EXCEPT ![i] = "done"]
                  /\ thrown' = [thrown EXCEPT ![i] = Err("parse")]
                  /\ Return(i, Failed)
                  /\ UNCHANGED req
             ELSE IF r.events = <<>>
             THEN /\ pc' = [pc EXCEPT ![i] = "done"]
                  /\ Return(i, Ignored)
                  /\ UNCHANGED <<req, thrown>>
             ELSE /\ pc' = [pc EXCEPT ![i] = "sleep"]
                  /\ req' = [req EXCEPT ![i] = r.events[1].msg]
                  /\ UNCHANGED <<outcome, thrown>>
    /\ UNCHANGED <<layout, committed, delays, now, remote, dir, wc, base, baseFile, pushAttempts,
                   ops, cloned, isDuplicate, pushed, mergeVars>>

(* main comparing the signature before testing for missing input *)
ReceiveSignatureFirst(i) ==
    /\ pc[i] = "idle"
    /\ \A j \in Invocations : j < i => pc[j] # "idle"
    /\ \E r \in Requests :
          /\ event' = [event EXCEPT ![i] = r]
          /\ IF r.signature # "good"
             THEN /\ pc' = [pc EXCEPT ![i] = "done"]
                  /\ Return(i, InvalidSignature)
                  /\ UNCHANGED <<req, thrown>>
             ELSE IF r.body = "none"
             THEN /\ pc' = [pc EXCEPT ![i] = "done"]
                  /\ Return(i, MissingInput)
                  /\ UNCHANGED <<req, thrown>>
             ELSE IF r.body = "malformed"
             THEN /\ pc' = [pc EXCEPT ![i] = "done"]
                  /\ thrown' = [thrown EXCEPT ![i] = Err("parse")]
                  /\ Return(i, Failed)
                  /\ UNCHANGED req
             ELSE IF r.events = <<>> \/ r.events[1].type # "text"
             THEN /\ pc' = [pc EXCEPT ![i] = "done"]
                  /\ Return(i, Ignored)
                  /\ UNCHANGED <<req, thrown>>
             ELSE /\ pc' = [pc EXCEPT ![i] = "sleep"]
                  /\ req' = [req EXCEPT ![i] = r.events[1].msg]
                  /\ UNCHANGED <<outcome, thrown>>
    /\ UNCHANGED <<layout, committed, delays, now, remote, dir, wc, base, baseFile, pushAttempts,
                   ops, cloned, isDuplicate, pushed, mergeVars>>

(* mutant: main takes the last event of the request *)
ReceiveLastEvent(i) ==
    /\ pc[i] = "idle"
    /\ \A j \in Invocations : j < i => pc[j] # "idle"
    /\ \E r \in Requests :
          /\ event' = [event EXCEPT ![i] = r]
          /\ IF r.signature = "none" \/ r.body = "none"
             THEN /\ pc' = [pc EXCEPT ![i] = "done"]
                  /\ Return(i, MissingInput)
                  /\ UNCHANGED <<req, thrown>>
             ELSE IF r.signature # "good"
             THEN /\ pc' = [pc EXCEPT ![i] = "done"]
                  /\ Return(i, InvalidSignature)
                  /\ UNCHANGED <<req, thrown>>
             ELSE IF r.body = "malformed"
             THEN /\ pc' = [pc EXCEPT ![i] = "done"]
                  /\ thrown' = [thrown EXCEPT ![i] = Err("parse")]
                  /\ Return(i, Failed)
                  /\ UNCHANGED req
             ELSE IF r.events = <<>> \/ r.events[Len(r.events)].type # "text"
             THEN /\ pc' = [pc EXCEPT ![i] = "done"]
                  /\ Return(i, Ignored)
                  /\ UNCHANGED <<req, thrown>>
             ELSE /\ pc' = [pc EXCEPT ![i] = "sleep"]
                  /\ req' = [req EXCEPT ![i] = r.events[Len(r.events)].msg]
                  /\ UNCHANGED <<outcome, thrown>>
    /\ UNCHANGED <<layout, committed, delays, now, remote, dir, wc, base, baseFile, pushAttempts,
                   ops, cloned, isDuplicate, pushed, mergeVars>>

(* main up to the call of processGitOperations *)
Receive(i) ==
    /\ pc[i] = "idle"
    /\ \A j \in Invocations : j < i => pc[j] # "idle"
    /\ \E r \in Requests :
          /\ event' = [event EXCEPT ![i] = r]
          /\ IF r.signature = "none" \/ r.body = "none"
             THEN /\ pc' = [pc EXCEPT ![i] = "done"]
                  /\ Return(i, MissingInput)
                  /\ UNCHANGED <<req, thrown>>
             ELSE IF r.signature # "good"
             THEN /\ pc' = [pc EXCEPT ![i] = "done"]
                  /\ Return(i, InvalidSignature)
                  /\ UNCHANGED <<req, thrown>>
             ELSE IF r.body = "malformed"
             THEN /\ pc' = [pc EXCEPT ![i] = "done"]
                  /\ thrown' = [thrown EXCEPT ![i] = Err("parse")]
                  /\ Return(i, Failed)
                  /\ UNCHANGED req
             ELSE IF r.events = <<>> \/ r.events[1].type # "text"
             THEN /\ pc' = [pc EXCEPT ![i] = "done"]
                  /\ Return(i, Ignored)
                  /\ UNCHANGED <<req, thrown>>
             ELSE /\ pc' = [pc EXCEPT ![i] = "sleep"]
                  /\ req' = [req EXCEPT ![i] = r.events[1].msg]
                  /\ UNCHANGED <<outcome, thrown>>
    /\ UNCHANGED <<layout, committed, delays, now, remote, dir, wc, base, baseFile, pushAttempts,
                   ops, cloned, isDuplicate, pushed, mergeVars>>

(* processGitOperations: the jitter sleep ends; setupGitRepository names   *)
(* repoDir after the clock and starts the clone                            *)
Sleep(i) ==
    /\ pc[i] = "sleep"
    /\ \E t \in now..MaxClock :
          /\ now' = t
          /\ dir' = [dir EXCEPT ![i] = t]
    /\ Goto(i, "sleep", "clone")
    /\ UNCHANGED <<layout, committed, delays, event, remote, req, wc, base, baseFile, pushAttempts, thrown,
                   outcome, cloned, isDuplicate, pushed, mergeVars>>

(* git refuses to clone into a directory that holds a working copy *)
DirTaken(i) ==
    \E j \in Invocations : j # i /\ dir[j] = dir[i] /\ "clone" \in {ops[j][k] : k \in 1..Len(ops[j])}

CloneSucceeds(i) ==
    /\ ~DirTaken(i)
    /\ Goto(i, "clone", "mkdir")
    /\ wc' = [wc EXCEPT ![i] = remote.files[Target(i)]]
    /\ cloned' = [cloned EXCEPT ![i] = remote.files[Target(i)]]
    /\ baseFile' = [baseFile EXCEPT ![i] = remote.files[Target(i)]]
    /\ base' = [base EXCEPT ![i] = remote.head]
    /\ UNCHANGED <<thrown, outcome>>

(* mutant: a failed clone is swallowed and the pipeline goes on *)
CloneFailsSwallowed(i) ==
    /\ Goto(i, "cloneFail", "mkdir")
    /\ UNCHANGED <<wc, cloned, baseFile, base, thrown, outcome>>

CloneFails(i) ==
    /\ Throw(i, "cloneFail", Err("clone"))
    /\ UNCHANGED <<wc, cloned, baseFile, base>>

Clone(i) ==
    /\ pc[i] = "clone"
    /\ (CloneSucceeds(i) \/ CloneFails(i))
    /\ UNCHANGED <<layout, committed, delays, event, now, remote, req, dir, pushAttempts, isDuplicate,
                   pushed, mergeVars>>

Mkdir(i) ==
    /\ pc[i] = "mkdir"
    /\ \/ /\ Goto(i, "mkdir", "access")
          /\ UNCHANGED <<thrown, outcome>>
       \/ Throw(i, "mkdirFail", Err("mkdir"))
    /\ UNCHANGED <<layout, committed, delays, event, now, remote, req, dir, wc, base, baseFile, pushAttempts,
                   cloned, isDuplicate, pushed, mergeVars>>

(* fs.access(filePath): rejects when the file is absent, or on an error *)
Access(i) ==
    /\ pc[i] = "access"
    /\ \/ /\ wc[i] # Absent
          /\ Goto(i, "access", "read")
       \/ Goto(i, "accessFail", "catchWrite")
    /\ UNCHANGED <<layout, committed, delays, event, now, remote, req, dir, wc, base, baseFile, pushAttempts,
                   thrown, outcome, cloned, isDuplicate, pushed, mergeVars>>

(* mutant: the duplicate is noticed but the early return is missing *)
ReadDuplicateNoReturn(i) ==
    /\ IsDuplicate(wc[i], req[i])
    /\ Goto(i, "read", "commit")
    /\ isDuplicate' = [isDuplicate EXCEPT ![i] = TRUE]
    /\ UNCHANGED outcome

(* the duplicate check finds the line: processGitOperations returns *)
ReadDuplicate(i) ==
    /\ IsDuplicate(wc[i], req[i])
    /\ Goto(i, "read", "done")
    /\ isDuplicate' = [isDuplicate EXCEPT ![i] = TRUE]
    /\ Return(i, Processed)

(* mutant: a fresh entry goes to the commit with the file left unwritten *)
ReadFreshSkipsWrite(i) ==
    /\ ~IsDuplicate(wc[i], req[i])
    /\ Goto(i, "read", "commit")
    /\ UNCHANGED <<isDuplicate, outcome>>

ReadFresh(i) ==
    /\ ~IsDuplicate(wc[i], req[i])
    /\ Goto(i, "read",
            IF layout = "topic" THEN "write"
            ELSE IF NeedsNewline(wc[i]) THEN "fixNewline" ELSE "append")
    /\ UNCHANGED <<isDuplicate, outcome>>

ReadFails(i) ==
    /\ Goto(i, "readFail", "catchWrite")
    /\ UNCHANGED <<isDuplicate, outcome>>

(* fs.readFile and the duplicate check on what it read *)
Read(i) ==
    /\ pc[i] = "read"
    /\ (ReadDuplicate(i) \/ ReadFresh(i) \/ ReadFails(i))
    /\ UNCHANGED <<layout, committed, delays, event, now, remote, req, dir, wc, base, baseFile, pushAttempts,
                   thrown, cloned, pushed, mergeVars>>

(* topic layout: fs.writeFile(filePath, newContent) inside the try block *)
Write(i) ==
    /\ pc[i] = "write"
    /\ \/ /\ Goto(i, "write", "commit")
          /\ wc' = [wc EXCEPT ![i] =
                      TopicNewContent(@, EntryLine(req[i]), DateStr(req[i].ts))]
       \/ /\ Goto(i, "writeFail", "catchWrite")
          /\ UNCHANGED wc
    /\ UNCHANGED <<layout, committed, delays, event, now, remote, req, dir, base, baseFile, pushAttempts,
                   thrown, outcome, cloned, isDuplicate, pushed, mergeVars>>

(* timeline layout: fs.appendFile(filePath, '\n') inside the try block *)
FixNewline(i) ==
    /\ pc[i] = "fixNewline"
    /\ \/ /\ Goto(i, "fixNewline", "append")
          /\ wc' = [wc EXCEPT ![i] = @ \o <<NL>>]
       \/ /\ Goto(i, "fixNewlineFail", "catchWrite")
          /\ UNCHANGED wc
    /\ UNCHANGED <<layout, committed, delays, event, now, remote, req, dir, base, baseFile, pushAttempts,
                   thrown, outcome, cloned, isDuplicate, pushed, mergeVars>>

(* the catch block: whatever was thrown in the try block, write a new file *)
CatchWrite(i) ==
    /\ pc[i] = "catchWrite"
    /\ \/ /\ Goto(i, "catchWrite", IF layout = "topic" THEN "commit" ELSE "append")
          /\ wc' = [wc EXCEPT ![i] =
                      IF layout = "topic"
                      THEN TopicCreated(EntryLine(req[i]), DateStr(req[i].ts))
                      ELSE HEADER]
          /\ UNCHANGED <<thrown, outcome>>
       \/ /\ Throw(i, "catchWriteFail", Err("writeFile"))
          /\ UNCHANGED wc
    /\ UNCHANGED <<layout, committed, delays, event, now, remote, req, dir, base, baseFile, pushAttempts,
                   cloned, isDuplicate, pushed, mergeVars>>

(* timeline layout: writeToFile *)
AppendLine(i) ==
    /\ pc[i] = "append"
    /\ \/ /\ Goto(i, "append", "commit")
          /\ wc' = [wc EXCEPT ![i] = @ \o EntryLine(req[i])]
          /\ UNCHANGED <<thrown, outcome>>
       \/ /\ Throw(i, "appendFail", Err("appendFile"))
          /\ UNCHANGED wc
    /\ UNCHANGED <<layout, committed, delays, event, now, remote, req, dir, base, baseFile, pushAttempts,
                   cloned, isDuplicate, pushed, mergeVars>>

(* mutant: processGitOperations returns after the commit, the push left out *)
CommitWithoutPush(i) ==
    /\ pc[i] = "commit"
    /\ \/ /\ Goto(i, "commit", "done")
          /\ Return(i, Processed)
          /\ UNCHANGED thrown
          /\ committed' = [committed EXCEPT ![i] =
                             [files |-> {Target(i)},
                              message |-> CommitMessage(req[i].ts)]]
       \/ /\ Throw(i, "commitFail", Err("commit"))
          /\ UNCHANGED committed
    /\ UNCHANGED <<layout, delays, event, now, remote, req, dir, wc, base, baseFile,
                   pushAttempts, cloned, isDuplicate, pushed, mergeVars>>

(* repo.add(filePath).commit(message) *)
Commit(i) ==
    /\ pc[i] = "commit"
    /\ \/ /\ Goto(i, "commit", "push")
          /\ UNCHANGED <<thrown, outcome>>
          /\ committed' = [committed EXCEPT ![i] =
                             [files |-> {Target(i)},
                              message |-> CommitMessage(req[i].ts)]]
       \/ /\ Throw(i, "commitFail", Err("commit"))
          /\ UNCHANGED committed
    /\ UNCHANGED <<layout, delays, event, now, remote, req, dir, wc, base, baseFile,
                   pushAttempts, cloned, isDuplicate, pushed, mergeVars>>

(* pushWithRetry: repo.push().  The remote takes a push only when the      *)
(* pushed branch contains the remote head; any push may also fail in       *)
(* transit.  A failed push changes nothing on the remote.                  *)
PushSucceeds(i) ==
    /\ base[i] = remote.head
    /\ Goto(i, "push", "done")
    /\ remote' = [head |-> remote.head + 1,
                  files |-> [remote.files EXCEPT ![Target(i)] = wc[i]]]
    /\ base' = [base EXCEPT ![i] = remote.head + 1]
    /\ baseFile' = [baseFile EXCEPT ![i] = wc[i]]
    /\ pushed' = [pushed EXCEPT ![i] = wc[i]]
    /\ Return(i, Processed)
    /\ UNCHANGED <<pushAttempts, thrown>>

(* mutant: the attempt counter is not advanced *)
PushFailsUncounted(i) ==
    /\ Goto(i, "pushFail", "wait")
    /\ UNCHANGED <<pushAttempts, thrown, outcome, remote, base, baseFile, pushed>>

(* mutant: the bound is compared one attempt too early *)
PushFailsEarly(i) ==
    /\ pushAttempts' = [pushAttempts EXCEPT ![i] = @ + 1]
    /\ IF pushAttempts'[i] + 1 >= MAX_PUSH_ATTEMPTS
       THEN Throw(i, "pushFail", PushErr(pushAttempts'[i]))
       ELSE /\ Goto(i, "pushFail", "wait")
            /\ UNCHANGED <<thrown, outcome>>
    /\ UNCHANGED <<remote, base, baseFile, pushed>>

PushFails(i) ==
    /\ pushAttempts' = [pushAttempts EXCEPT ![i] = @ + 1]
    /\ IF pushAttempts'[i] >= MAX_PUSH_ATTEMPTS
       THEN Throw(i, "pushFail", PushErr(pushAttempts'[i]))
       ELSE /\ Goto(i, "pushFail", "wait")
            /\ UNCHANGED <<thrown, outcome>>
    /\ UNCHANGED <<remote, base, baseFile, pushed>>

Push(i) ==
    /\ pc[i] = "push"
    /\ pushAttempts[i] < MAX_PUSH_ATTEMPTS
    /\ (PushSucceeds(i) \/ PushFails(i))
    /\ UNCHANGED <<layout, committed, delays, event, now, req, dir, wc, cloned, isDuplicate, mergeVars>>

(* mutant: the same wait before every pull *)
WaitConstant(i) ==
    /\ pc[i] = "wait"
    /\ Goto(i, "wait", "pull")
    /\ delays' = [delays EXCEPT ![i] = Append(@, RETRY_DELAY_MS)]
    /\ UNCHANGED <<layout, committed, event, now, remote, req, dir, wc, base, baseFile,
                   pushAttempts, thrown, outcome, cloned, isDuplicate, pushed, mergeVars>>

(* pushWithRetry: the backoff timer before the pull,                       *)
(* setTimeout(resolve, RETRY_DELAY_MS * pushAttempts)                      *)
Wait(i) ==
    /\ pc[i] = "wait"
    /\ Goto(i, "wait", "pull")
    /\ delays' = [delays EXCEPT ![i] = Append(@, RETRY_DELAY_MS * pushAttempts[i])]
    /\ UNCHANGED <<layout, committed, event, now, remote, req, dir, wc, base, baseFile,
                   pushAttempts, thrown, outcome, cloned, isDuplicate, pushed, mergeVars>>

(* repo.pull() merges the remote head into the local branch *)
PullMerges(i) ==
    LET merged == Merge3(baseFile[i], wc[i], remote.files[Target(i)])
    IN  /\ merged # Conflict
        /\ Goto(i, "pull", "push")
        /\ wc' = [wc EXCEPT ![i] = merged]
        /\ base' = [base EXCEPT ![i] = remote.head]
        /\ baseFile' = [baseFile EXCEPT ![i] = remote.files[Target(i)]]
        /\ UNCHANGED <<thrown, outcome>>

(* mutant: the pull error is not caught *)
PullFailsThrows(i) ==
    /\ Throw(i, "pullFail", Err("pull"))
    /\ UNCHANGED <<wc, base, baseFile>>

(* mutant: after a failed pull the retry loop goes back to the file write *)
PullFailsRewrites(i) ==
    /\ Goto(i, "pullFail", IF layout = "topic" THEN "write" ELSE "append")
    /\ UNCHANGED <<wc, base, baseFile, thrown, outcome>>

(* repo.pull() rejects (a conflict, the network): caught and ignored *)
PullFails(i) ==
    /\ Goto(i, "pullFail", "push")
    /\ UNCHANGED <<wc, base, baseFile, thrown, outcome>>

(* pushWithRetry: repo.pull(), its failure swallowed *)
Pull(i) ==
    /\ pc[i] = "pull"
    /\ (PullMerges(i) \/ PullFails(i))
    /\ UNCHANGED <<layout, committed, delays, event, now, remote, req, dir, pushAttempts,
                   cloned, isDuplicate, pushed, mergeVars>>

Step(i) ==
    \/ Receive(i)
    \/ Sleep(i)
    \/ Clone(i)
    \/ Mkdir(i)
    \/ Access(i)
    \/ Read(i)
    \/ Write(i)
    \/ FixNewline(i)
    \/ CatchWrite(i)
    \/ AppendLine(i)
    \/ Commit(i)
    \/ Push(i)
    \/ Wait(i)
    \/ Pull(i)

Next == \E i \in Invocations : Step(i)

Spec == Init /\ [][Next]_vars

----------------------------------------------------------------------------
(* One invocation followed step by step, while each other invocation runs  *)
(* from its clone to its accepted push between two of these steps: it      *)
(* clones the head, merges its message and pushes one commit on top        *)

OtherPushes == remote.head - (IF pushed[1] # Absent THEN 1 ELSE 0)

OtherInvocation ==
    /\ OtherPushes < MaxOtherPushes
    /\ \E m \in Messages :
          LET path == TargetPath(m.ts)
              r == MergeFile(remote.files[path], m)
          IN  /\ ~r.dup
              /\ remote' = [head |-> remote.head + 1,
                            files |-> [remote.files EXCEPT ![path] = r.file]]
    /\ UNCHANGED <<layout, committed, delays, event, now, pc, req, dir, wc, base, baseFile, pushAttempts,
                   thrown, outcome, ops, cloned, isDuplicate, pushed,
                   mergeVars>>

SoloNext == Step(1) \/ OtherInvocation

SpecSolo == Init /\ [][SoloNext]_vars

----------------------------------------------------------------------------
(* The early timeline iteration (src/unnamed/part_002, lines 94-250): no   *)
(* jitter sleep, no duplicate check, one pull and one more push after a    *)
(* failed push.  Clone, Mkdir, Access, FixNewline, CatchWrite, AppendLine  *)
(* and Commit are the calls of the timeline layout.  Its formatter splits  *)
(* a text that holds two or more '<time> content' segments; the texts of   *)
(* Messages hold none and give the single line of TimelineLine.            *)

(* main up to the first await of processGitOperations, the clone: nothing  *)
(* is awaited before repoDir is named after the clock                      *)
EarlyReceive(i) ==
    /\ pc[i] = "idle"
    /\ \A j \in Invocations : j < i => pc[j] # "idle"
    /\ \E r \in Requests :
          /\ event' = [event EXCEPT ![i] = r]
          /\ IF r.signature = "none" \/ r.body = "none"
             THEN /\ pc' = [pc EXCEPT ![i] = "done"]
                  /\ Return(i, MissingSignatureOrBody)
                  /\ UNCHANGED <<req, thrown, now, dir>>
             ELSE IF r.signature # "good"
             THEN /\ pc' = [pc EXCEPT ![i] = "done"]
                  /\ Return(i, BadSignature)
                  /\ UNCHANGED <<req, thrown, now, dir>>
             ELSE IF r.body = "malformed"
             THEN /\ pc' = [pc EXCEPT ![i] = "done"]
                  /\ thrown' = [thrown EXCEPT ![i] = Err("parse")]
                  /\ Return(i, InternalServerError)
                  /\ UNCHANGED <<req, now, dir>>
             ELSE IF r.events = <<>> \/ r.events[1].type # "text"
             THEN /\ pc' = [pc EXCEPT ![i] = "done"]
                  /\ Return(i, IgnoreNonText)
                  /\ UNCHANGED <<req, thrown, now, dir>>
             ELSE /\ pc' = [pc EXCEPT ![i] = "clone"]
                  /\ req' = [req EXCEPT ![i] = r.events[1].msg]
                  /\ \E t \in now..MaxClock :
                        /\ now' = t
                        /\ dir' = [dir EXCEPT ![i] = t]
                  /\ UNCHANGED <<outcome, thrown>>
    /\ UNCHANGED <<layout, committed, delays, remote, wc, base, baseFile, pushAttempts,
                   ops, cloned, isDuplicate, pushed, mergeVars>>

(* fs.readFile: the content only decides whether a line break is appended *)
EarlyRead(i) ==
    /\ pc[i] = "read"
    /\ \/ Goto(i, "read", IF NeedsNewline(wc[i]) THEN "fixNewline" ELSE "append")
       \/ Goto(i, "readFail", "catchWrite")
    /\ UNCHANGED <<layout, committed, delays, event, now, remote, req, dir, wc, base, baseFile, pushAttempts,
                   thrown, outcome, cloned, isDuplicate, pushed, mergeVars>>

(* repo.push(), the first one or the one after the pull *)
EarlyPush(i) ==
    /\ pc[i] = "push"
    /\ \/ /\ base[i] = remote.head
          /\ Goto(i, "push", "done")
          /\ remote' = [head |-> remote.head + 1,
                        files |-> [remote.files EXCEPT ![Target(i)] = wc[i]]]
          /\ base' = [base EXCEPT ![i] = remote.head + 1]
          /\ baseFile' = [baseFile EXCEPT ![i] = wc[i]]
          /\ pushed' = [pushed EXCEPT ![i] = wc[i]]
          /\ Return(i, Ok)
          /\ UNCHANGED thrown
       \/ /\ IF Ran(i, "pushFail")
             THEN Throw(i, "pushFail", Err("push"))
             ELSE /\ Goto(i, "pushFail", "pull")
                  /\ UNCHANGED <<thrown, outcome>>
          /\ UNCHANGED <<remote, base, baseFile, pushed>>
    /\ UNCHANGED <<layout, committed, delays, event, now, req, dir, wc, pushAttempts, cloned, isDuplicate,
                   mergeVars>>

(* repo.pull() inside the retry's try block: its failure is thrown *)
EarlyPull(i) ==
    /\ pc[i] = "pull"
    /\ \/ PullMerges(i)
       \/ /\ Throw(i, "pullFail", Err("pull"))
          /\ UNCHANGED <<wc, base, baseFile>>
    /\ UNCHANGED <<layout, committed, delays, event, now, remote, req, dir, pushAttempts,
                   cloned, isDuplicate, pushed, mergeVars>>

EarlyStep(i) ==
    \/ EarlyReceive(i)
    \/ Clone(i)
    \/ Mkdir(i)
    \/ Access(i)
    \/ EarlyRead(i)
    \/ FixNewline(i)
    \/ CatchWrite(i)
    \/ AppendLine(i)
    \/ Commit(i)
    \/ EarlyPush(i)
    \/ EarlyPull(i)

EarlyInit ==
    /\ layout = "early"
    /\ remote \in [head : {0}, files : InitVaults]
    /\ PipeInit
    /\ MergeIdle

EarlyNext == \E i \in Invocations : EarlyStep(i)

SpecEarly == EarlyInit /\ [][EarlyNext]_vars

----------------------------------------------------------------------------
(* The merge engine alone: successive merges into the files of one working *)
(* copy, no filesystem call failing                                        *)

MergeInit ==
    /\ layout \in Layouts
    /\ remote = [head |-> 0, files |-> EmptyVault]
    /\ PipeInit
    /\ mfile \in MergeInitVaults
    /\ mlog = <<>>
    /\ fmt = NoFormat

MergeStep ==
    /\ Len(mlog) < MaxMerges
    /\ \E m \in MergeMessages :
          LET path == TargetPath(m.ts)
              r == MergeFile(mfile[path], m)
          IN  /\ mfile' = [mfile EXCEPT ![path] = r.file]
              /\ mlog' = Append(mlog, [msg |-> m,
                                       before |-> mfile[path],
                                       applied |-> ~r.dup,
                                       after |-> r.file])
    /\ UNCHANGED <<layout, pipeVars, fmt>>

SpecMerge == MergeInit /\ [][MergeStep]_vars

----------------------------------------------------------------------------
(* C6: merging a message and then the identical message again reports a    *)
(* duplicate on the second merge (applied = false) and leaves the file     *)
(* byte-identical to its content after the first merge.                    *)
C6_MergeIdempotent ==
    \A k \in 2..Len(mlog) :
        mlog[k].msg = mlog[k - 1].msg =>
            /\ ~mlog[k].applied
            /\ mlog[k].after = mlog[k - 1].after

C6_Witness ==
    \E k \in 2..Len(mlog) :
        /\ mlog[k].msg = mlog[k - 1].msg
        /\ mlog[k - 1].applied
        /\ mlog[k - 1].before # Absent
        /\ mlog[k].after = mlog[k - 1].after

----------------------------------------------------------------------------
(* What the claims speak of *)


PushCalls == {"push", "pushFail"}
PullCalls == {"pull", "pullFail"}
FileWrites == {"write", "writeFail", "fixNewline", "fixNewlineFail", "catchWrite",
               "catchWriteFail", "append", "appendFail"}

(* The calls of pushWithRetry, the backoff timers left out *)
RetryLog(i) == SelectSeq(ops[i], LAMBDA op : op \in PushCalls \cup PullCalls)

(* The entry of a message as a line of the file, without its line break *)
EntryOf(m) == TrimEnd(EntryLine(m))

EntryLinesOf(content) ==
    IF content = Absent THEN <<>>
    ELSE SelectSeq(Split(content), LAMBDA l : Len(l) > 0 /\ l[1] = "-")

HoldsEntry(content, m) ==
    \E k \in 1..Len(EntryLinesOf(content)) : EntryLinesOf(content)[k] = EntryOf(m)

(* C1: an invocation acknowledged with HTTP 200 'processed' either pushed  *)
(* a file holding its entry, or cloned a file that already held that       *)
(* entry; an acknowledged message whose entry is in neither is a silent    *)
(* loss.                                                                   *)
C1_NoSilentLoss ==
    \A i \in Invocations :
        outcome[i] = Processed =>
            \/ pushed[i] # Absent /\ HoldsEntry(pushed[i], req[i])
            \/ HoldsEntry(cloned[i], req[i])

(* C2: under any interleaving of invocations no file of the remote holds   *)
(* the same entry line twice.                                              *)
C2_NoDuplicateEntry ==
    \A p \in Paths :
        LET entries == EntryLinesOf(remote.files[p])
        IN  \A j, k \in 1..Len(entries) : entries[j] = entries[k] => j = k

(* The calls of a finished or running retry loop alternate: a failed push  *)
(* is followed by a pull, a pull by a push                                 *)
Alternates(log) ==
    \A k \in 1..(Len(log) - 1) :
        /\ log[k] = "pushFail" => log[k + 1] \in PullCalls
        /\ log[k] \in PullCalls => log[k + 1] \in PushCalls
        /\ log[k] # "push"

InRetryLoop(i) == pc[i] \in {"push", "wait", "pull"}
RetryEnded(i) == pc[i] = "done" /\ RetryLog(i) # <<>>

(* C3: when the first k < 3 pushes fail and push k+1 succeeds, pushWithRetry *)
(* has made exactly k pulls, one between each two consecutive pushes, and  *)
(* returns without throwing; when all 3 pushes fail it has made exactly 2  *)
(* pulls and throws the error of the third push.                           *)
C3_RetryStateMachine ==
    \A i \in Invocations :
        RetryEnded(i) =>
            LET log == RetryLog(i)
                fails == Count(i, {"pushFail"})
            IN  /\ log[1] \in PushCalls
                /\ Alternates(log)
                /\ Count(i, PullCalls) = (IF log[Len(log)] = "push" THEN fails ELSE fails - 1)
                /\ \/ /\ log[Len(log)] = "push"
                      /\ fails < MAX_PUSH_ATTEMPTS
                      /\ thrown[i] = NoError
                      /\ outcome[i] = Processed
                   \/ /\ log[Len(log)] = "pushFail"
                      /\ fails = MAX_PUSH_ATTEMPTS
                      /\ Count(i, PullCalls) = 2
                      /\ thrown[i] = PushErr(3)
                      /\ outcome[i] = Failed

C3_Witness ==
    \E i \in Invocations :
        /\ RetryEnded(i)
        /\ RetryLog(i) \in {<<"pushFail", a, "pushFail", b, "push">> : a, b \in PullCalls}
        /\ thrown[i] = NoError

(* C4: pushWithRetry makes at most MAX_PUSH_ATTEMPTS pushes and at most 2   *)
(* pulls, makes no push after a successful push or after the third failed  *)
(* one; a push that is due is always within the bound of the loop, so the  *)
(* loop never stops short of Succeeded or Failed.                          *)
C4_RetryBounded ==
    \A i \in Invocations :
        /\ Count(i, PushCalls) <= MAX_PUSH_ATTEMPTS
        /\ Count(i, PullCalls) <= 2
        /\ Count(i, {"push"}) <= 1
        /\ Alternates(RetryLog(i))
        /\ (Ran(i, "push") \/ Count(i, {"pushFail"}) = MAX_PUSH_ATTEMPTS) => pc[i] = "done"
        /\ pc[i] = "push" => pushAttempts[i] < MAX_PUSH_ATTEMPTS
        /\ InRetryLoop(i) => pushAttempts[i] = Count(i, {"pushFail"})

C4_Witness ==
    \E i \in Invocations :
        /\ pc[i] = "done"
        /\ Count(i, {"pushFail"}) = MAX_PUSH_ATTEMPTS
        /\ Count(i, PullCalls) = 2

(* C5: a failed pull does not end the retry loop: the next push is still   *)
(* made, the pull error is dropped, and the only error pushWithRetry       *)
(* throws is that of a failed last push.                                   *)
C5_PullFailureIgnored ==
    \A i \in Invocations :
        LET log == RetryLog(i)
        IN  /\ (log # <<>> /\ log[Len(log)] = "pullFail") =>
                   /\ pc[i] = "push"
                   /\ thrown[i] = NoError
                   /\ pushAttempts[i] < MAX_PUSH_ATTEMPTS
            /\ (RetryEnded(i) /\ thrown[i] # NoError) =>
                   /\ thrown[i] = PushErr(MAX_PUSH_ATTEMPTS)
                   /\ log[Len(log)] = "pushFail"

C5_Witness ==
    \E i \in Invocations :
        \E k \in 1..(Len(RetryLog(i)) - 1) :
            /\ RetryLog(i)[k] = "pullFail"
            /\ RetryLog(i)[k + 1] \in PushCalls

(* C7: an invocation whose merge detects a duplicate returns HTTP 200      *)
(* 'processed' having made no write to the target file, no commit, no push *)
(* and no pull: its working-copy file is what the clone delivered and it   *)
(* published nothing to the remote.                                        *)
C7_DuplicateIsNoOp ==
    \A i \in Invocations :
        isDuplicate[i] =>
            /\ pc[i] = "done"
            /\ outcome[i] = Processed
            /\ Count(i, FileWrites) = 0
            /\ Count(i, {"commit", "commitFail"}) = 0
            /\ Count(i, PushCalls \cup PullCalls) = 0
            /\ wc[i] = cloned[i]
            /\ pushed[i] = Absent

C7_Witness ==
    \E i \in Invocations :
        /\ isDuplicate[i]
        /\ outcome[i] = Processed
        /\ HoldsEntry(cloned[i], req[i])

(* C8: no two invocations that are running at the same time have chosen    *)
(* the same working-copy directory.                                        *)
Running(i) == pc[i] \notin {"idle", "sleep", "done"}

C8_UniqueWorkingCopy ==
    \A i, j \in Invocations :
        (i # j /\ Running(i) /\ Running(j)) => dir[i] # dir[j]

(* C9: a filesystem failure on the target file ends the invocation in the  *)
(* failure outcome with no commit and no push; a failed read of an         *)
(* existing file is never followed by a rewrite of that file.              *)
FileFailures == {"readFail", "writeFail", "fixNewlineFail", "catchWriteFail",
                 "appendFail"}

C9_FileFailureIsFatal ==
    \A i \in Invocations :
        /\ Count(i, FileFailures) > 0 =>
              /\ pc[i] = "done" => outcome[i] = Failed
              /\ Count(i, {"commit"} \cup PushCalls) = 0
        /\ Ran(i, "readFail") => ~Ran(i, "catchWrite")

(* C10: a failed clone ends the invocation in HTTP 500 'Failed to process  *)
(* webhook' after that one clone attempt, with no directory creation, no   *)
(* file write, no commit and no push.                                      *)
C10_CloneFailureIsFatal ==
    \A i \in Invocations :
        Ran(i, "cloneFail") =>
            /\ pc[i] = "done"
            /\ outcome[i] = Failed
            /\ thrown[i] = Err("clone")
            /\ ops[i] = <<"sleep", "cloneFail">>
            /\ wc[i] = Absent
            /\ pushed[i] = Absent

C10_Witness ==
    \E i \in Invocations :
        /\ Ran(i, "cloneFail")
        /\ outcome[i] = Failed

----------------------------------------------------------------------------
(* What main was called with *)
Called(i) == pc[i] # "idle"

(* No step of the pipeline has run for invocation i *)
NothingRan(i) ==
    /\ pc[i] = "done"
    /\ ops[i] = <<>>
    /\ req[i] = NoMsg
    /\ dir[i] = NoDir
    /\ wc[i] = Absent
    /\ cloned[i] = Absent
    /\ pushed[i] = Absent

(* A correctly signed JSON body whose first event is absent, is not a      *)
(* message event, or is a message that is not text                         *)
NotATextMessage(r) ==
    /\ r.signature = "good"
    /\ r.body = "json"
    /\ \/ r.events = <<>>
       \/ r.events[1].type = "follow"
       \/ r.events[1].type = "image"

(* C11: a correctly signed request whose first event is absent, is not of  *)
(* type message, or carries a non-text message is answered 200 'Event      *)
(* ignored - not a text message', and no step of the pipeline runs for it: *)
(* no sleep, clone, file access, commit or push.                           *)
C11_IgnoredRunsNothing ==
    \A i \in Invocations :
        Called(i) /\ NotATextMessage(event[i]) =>
            /\ outcome[i] = Ignored
            /\ thrown[i] = NoError
            /\ NothingRan(i)

C11_Witness ==
    \E i \in Invocations :
        /\ Len(event[i].events) = 2
        /\ event[i].events[1].type = "image"
        /\ event[i].events[2].type = "text"
        /\ outcome[i] = Ignored
        /\ NothingRan(i)

(* C12: a request without signature header or without body is answered 400 *)
(* 'Missing required headers or body', also when the signature that is     *)
(* present is wrong; a request with both whose signature is not the HMAC   *)
(* of the body is answered 401 'Invalid signature'; in both cases the body *)
(* is not parsed and no step of the pipeline runs.                         *)
C12_RejectsBeforeParsing ==
    \A i \in Invocations :
        Called(i) =>
            /\ event[i].signature = "none" \/ event[i].body = "none" =>
                  /\ outcome[i] = MissingInput
                  /\ thrown[i] = NoError
                  /\ NothingRan(i)
            /\ event[i].signature = "bad" /\ event[i].body # "none" =>
                  /\ outcome[i] = InvalidSignature
                  /\ thrown[i] = NoError
                  /\ NothingRan(i)

C12_Witness ==
    \E i \in Invocations :
        /\ event[i].signature = "bad"
        /\ event[i].body = "json"
        /\ event[i].events # <<>>
        /\ event[i].events[1].type = "text"
        /\ outcome[i] = InvalidSignature
        /\ NothingRan(i)

----------------------------------------------------------------------------
(* The failures the error taxonomy calls fatal: the clone, the directory,  *)
(* reading or writing the target file, the commit                          *)
FatalFailures == {"cloneFail", "mkdirFail", "commitFail"} \cup FileFailures

(* C13: every fatal error (clone, directory or file operation, commit,     *)
(* exhausted push retries) ends the invocation in HTTP 500 'Failed to      *)
(* process webhook', and an invocation that ends in it has published       *)
(* nothing on the remote.  A push that fails leaves the remote unchanged.  *)
C13_FatalErrorsFail ==
    \A i \in Invocations :
        pc[i] = "done" =>
            /\ Count(i, FatalFailures) > 0 => outcome[i] = Failed
            /\ Count(i, {"pushFail"}) >= MAX_PUSH_ATTEMPTS => outcome[i] = Failed
            /\ outcome[i] = Failed => pushed[i] = Absent

(* The second half of C13 alone *)
NoPartialSuccess ==
    \A i \in Invocations :
        /\ pc[i] = "done" /\ Count(i, {"pushFail"}) >= MAX_PUSH_ATTEMPTS
              => outcome[i] = Failed
        /\ outcome[i] = Failed => pushed[i] = Absent /\ thrown[i] # NoError
        /\ thrown[i] # NoError => outcome[i] = Failed /\ pc[i] = "done"

(* The writes of the target file that succeeded *)
Written == {"write", "fixNewline", "catchWrite", "append"}

(* C14 as stated: an invocation that wrote the target file in its working  *)
(* copy never ends without having attempted a push.                        *)
C14_WriteThenPush ==
    \A i \in Invocations :
        pc[i] = "done" /\ Count(i, Written) > 0 => Count(i, PushCalls) > 0

(* C14 amended: an invocation that wrote the target file in its working    *)
(* copy ends without a push attempt only when a later write of the file or *)
(* the commit failed, and then it ends in HTTP 500; every invocation whose *)
(* commit succeeded has attempted a push when it ends.                     *)
C14_WriteThenPushUnlessFatal ==
    \A i \in Invocations :
        pc[i] = "done" /\ Count(i, Written) > 0 =>
            \/ Count(i, PushCalls) > 0
            \/ /\ ops[i][Len(ops[i])] \in {"catchWriteFail", "appendFail", "commitFail"}
               /\ ~Ran(i, "commit")
               /\ outcome[i] = Failed

C14_Witness ==
    \E i \in Invocations :
        /\ pc[i] = "done"
        /\ Ran(i, "write")
        /\ ops[i][Len(ops[i])] = "commitFail"
        /\ Count(i, PushCalls) = 0
        /\ outcome[i] = Failed

----------------------------------------------------------------------------
(* The merges of the harness that found no target file *)
Created(k) == mlog[k].before = Absent

StartsWith(content, prefix) ==
    Len(content) >= Len(prefix) /\ SubSeq(content, 1, Len(prefix)) = prefix

(* C16: a merge that finds no target file creates it beginning with the    *)
(* section header '## Timeline\n', followed by the entry line of the       *)
(* message, and reports the entry as applied.                              *)
C16_NewFileStartsWithHeader ==
    \A k \in 1..Len(mlog) :
        Created(k) =>
            LET m == mlog[k].msg
            IN  /\ mlog[k].applied
                /\ StartsWith(mlog[k].after, HEADER)
                /\ SubSeq(mlog[k].after, Len(HEADER) + 1, Len(mlog[k].after))
                      = EntryLine(m)

(* The merges of the harness that added an entry to an existing file *)
Inserted(k) == mlog[k].before # Absent /\ mlog[k].applied

(* C17: a merge that adds an entry to an existing diary file (timeline     *)
(* layout) leaves the old content, then a line break if the old content    *)
(* did not end with one (an empty file needs none), then the entry line;   *)
(* so the entry starts at the beginning of a line.                         *)
C17_AppendsOnOwnLine ==
    \A k \in 1..Len(mlog) :
        layout = "timeline" /\ Inserted(k) =>
            LET old == mlog[k].before
                m == mlog[k].msg
                ended == IF old = <<>> \/ EndsWithNL(old) THEN old ELSE old \o <<NL>>
            IN  mlog[k].after =
                    ended \o <<"-", SP>> \o TimeStr(m.ts) \o <<SP>> \o Trim(m.text)
                          \o <<NL>>

----------------------------------------------------------------------------
(* The date header lines of a topic file, top to bottom, as day numbers *)
IsDateLine(l) == \E n \in 1..Len(DateTok) : l = <<DateTok[n]>>
DayOf(l) == CHOOSE n \in 1..Len(DateTok) : l = <<DateTok[n]>>
DateLines(content) == SelectSeq(Split(content), IsDateLine)

NewestFirst(content) ==
    LET ds == DateLines(content)
    IN  \A a, b \in 1..Len(ds) : a < b => DayOf(ds[a]) > DayOf(ds[b])

(* C18: after any sequence of merges into a topic file that started        *)
(* absent, whatever the order of the message dates, the date header lines  *)
(* of the file are in newest-first order.                                  *)
C18_NewestDateFirst ==
    layout = "topic" /\ mlog # <<>> /\ mlog[1].before = Absent =>
        NewestFirst(mfile["topic"])

----------------------------------------------------------------------------
(* Lines of a topic file that are the date string, exactly or up to blanks *)
ExactDateLines(content, dateStr) ==
    {n \in 1..Len(Split(content)) : Split(content)[n] = dateStr}
TrimmedDateLines(content, dateStr) ==
    {n \in 1..Len(Split(content)) : Trim(Split(content)[n]) = dateStr}
First(S) == CHOOSE n \in S : \A o \in S : n <= o

(* The content with a line put in right after line n *)
WithLineAfter(content, n, line) ==
    LET lines == Split(content)
    IN  Join(SubSeq(lines, 1, n) \o <<line>> \o SubSeq(lines, n + 1, Len(lines)))

(* The content under a new block: date line, entry line, blank line *)
UnderNewBlock(content, m) ==
    DateStr(m.ts) \o <<NL, "-", SP>> \o Trim(m.text) \o <<NL, NL>> \o content

(* C19 as stated: a merge that adds an entry to a topic file with no line  *)
(* equal to the message's date puts the date line, the entry line and a    *)
(* blank line on top of the previous content, which follows unchanged.     *)
C19_PrependsNewDateBlock ==
    \A k \in 1..Len(mlog) :
        /\ layout = "topic"
        /\ Inserted(k)
        /\ ExactDateLines(mlog[k].before, DateStr(mlog[k].msg.ts)) = {}
        => mlog[k].after = UnderNewBlock(mlog[k].before, mlog[k].msg)

(* C19 amended: a merge that adds an entry to a topic file with no line    *)
(* that equals the message's date once surrounding blanks are trimmed puts *)
(* the date line, the entry line and a blank line on top of the previous   *)
(* content, which follows unchanged.                                       *)
C19_PrependsUnlessTrimmedDate ==
    \A k \in 1..Len(mlog) :
        /\ layout = "topic"
        /\ Inserted(k)
        /\ TrimmedDateLines(mlog[k].before, DateStr(mlog[k].msg.ts)) = {}
        => mlog[k].after = UnderNewBlock(mlog[k].before, mlog[k].msg)

C19_Witness ==
    \E k \in 1..Len(mlog) :
        /\ layout = "topic"
        /\ Inserted(k)
        /\ mlog[k].msg.ts = 2
        /\ mlog[k].before = <<"d0", NL, "-", SP, "a", "b", NL>>
        /\ mlog[k].after = <<"d1", NL, "-", SP, "b", NL, NL>> \o mlog[k].before

(* C20 as stated: a merge that adds an entry to a topic file with a line   *)
(* exactly equal to the message's date puts the entry line right after the *)
(* first such line, leaves every other line and their order unchanged, and *)
(* adds no second header for that date.                                    *)
C20_InsertsAfterDateLine ==
    \A k \in 1..Len(mlog) :
        LET dateStr == DateStr(mlog[k].msg.ts)
            exact == ExactDateLines(mlog[k].before, dateStr)
        IN  layout = "topic" /\ Inserted(k) /\ exact # {} =>
                /\ mlog[k].after = WithLineAfter(mlog[k].before, First(exact),
                                                 <<"-", SP>> \o Trim(mlog[k].msg.text))
                /\ ExactDateLines(mlog[k].after, dateStr) = 
                      {First(exact)} \cup {n + 1 : n \in exact \ {First(exact)}}

(* C20 amended: a merge that adds an entry to a topic file with a line     *)
(* that equals the message's date once surrounding blanks are trimmed puts *)
(* the entry line right after the first such line and changes nothing      *)
(* else: every other line and their order stay, no date line is written.   *)
C20_InsertsAfterTrimmedDateLine ==
    \A k \in 1..Len(mlog) :
        LET dateStr == DateStr(mlog[k].msg.ts)
            found == TrimmedDateLines(mlog[k].before, dateStr)
        IN  layout = "topic" /\ Inserted(k) /\ found # {} =>
                mlog[k].after = WithLineAfter(mlog[k].before, First(found),
                                              <<"-", SP>> \o Trim(mlog[k].msg.text))

C20_Witness ==
    \E k \in 1..Len(mlog) :
        /\ layout = "topic"
        /\ Inserted(k)
        /\ mlog[k].msg.ts = 0
        /\ mlog[k].before = <<"d1", NL, "-", SP, "b", NL, NL, "d0", NL, "-", SP, "a", NL>>
        /\ mlog[k].after = <<"d1", NL, "-", SP, "b", NL, NL, "d0", NL,
                              "-", SP, "a", NL, "b", NL, "-", SP, "a", NL>>

----------------------------------------------------------------------------
(* The git interactions of an invocation *)
GitCalls == {"clone", "cloneFail", "commit", "commitFail"} \cup PushCalls \cup PullCalls

(* C15: in every invocation that runs the pipeline the jitter sleep has    *)
(* completed before the first git interaction: no clone, add, commit, push *)
(* or pull precedes the end of the sleep.                                  *)
C15_SleepBeforeGit ==
    \A i \in Invocations :
        \A k \in 1..Len(ops[i]) :
            ops[i][k] \in GitCalls => \E j \in 1..(k - 1) : ops[i][j] = "sleep"

----------------------------------------------------------------------------
(* The content holds the lines of the entry as whole lines, one after the  *)
(* other                                                                   *)
HoldsWholeLines(content, entry) ==
    LET lines == Split(content)
        wanted == Split(entry)
    IN  \E p \in 1..Len(lines) :
            /\ p + Len(wanted) - 1 <= Len(lines)
            /\ SubSeq(lines, p, p + Len(wanted) - 1) = wanted

(* C21: the line a merge writes for a single-segment message is exactly    *)
(* '- <time> <trimmed text>' and a line break, the time being the clock    *)
(* time of the event timestamp.                                            *)
C21_LineIsTimeAndText ==
    \A k \in 1..Len(mlog) :
        mlog[k].applied =>
            Includes(mlog[k].after,
                     <<"-", SP>> \o TimeStr(mlog[k].msg.ts) \o <<SP>>
                         \o Trim(mlog[k].msg.text) \o <<NL>>)

(* C29: a merge reports a duplicate only when the file already holds the   *)
(* entry of the message as a whole line; an entry that is only a part of a *)
(* longer line is written.                                                 *)
C29_DuplicateIsWholeLine ==
    \A k \in 1..Len(mlog) :
        mlog[k].before # Absent /\ ~mlog[k].applied =>
            HoldsWholeLines(mlog[k].before, EntryOf(mlog[k].msg))

----------------------------------------------------------------------------
(* The calls that touch the working copy's files *)
FileCalls ==
    {"mkdir", "mkdirFail", "access", "accessFail", "read", "readFail"} \cup FileWrites

(* The call that puts the entry into the file *)
EntryWrites == IF layout = "topic" THEN {"write", "catchWrite"} ELSE {"append"}

(* Call k of invocation i comes after a completed call out of S *)
After(i, k, S) == \E j \in 1..(k - 1) : ops[i][j] \in S

(* C30: within one invocation the clone completes before the target file   *)
(* is read or written, the write of the entry completes before the stage   *)
(* and commit, no file call follows the commit, the commit completes       *)
(* before the first push, and the commit a push publishes holds the entry. *)
C30_FixedStepOrder ==
    \A i \in Invocations :
        /\ \A k \in 1..Len(ops[i]) :
              /\ ops[i][k] \in FileCalls =>
                    After(i, k, {"clone"}) /\ ~After(i, k, {"commit", "commitFail"})
              /\ ops[i][k] \in {"commit", "commitFail"} => After(i, k, EntryWrites)
              /\ ops[i][k] \in PushCalls \cup PullCalls => After(i, k, {"commit"})
        /\ Ran(i, "commit") /\ Count(i, PullCalls) = 0 =>
              Includes(wc[i], EntryOf(req[i]))

C30_Witness ==
    \E i \in Invocations :
        /\ Ran(i, "push")
        /\ Ran(i, "pull")
        /\ Ran(i, "read")
        /\ outcome[i] = Processed

----------------------------------------------------------------------------
(* s is t with some elements left out *)
RECURSIVE IsSubsequence(_, _)
IsSubsequence(s, t) ==
    IF s = <<>> THEN TRUE
    ELSE IF t = <<>> THEN FALSE
    ELSE IF s[1] = t[1] THEN IsSubsequence(Tail(s), Tail(t))
    ELSE IsSubsequence(s, Tail(t))

(* Every line of the old content is in the new content, unmodified and in  *)
(* the same relative order                                                 *)
KeepsLines(old, new) == IsSubsequence(Split(old), Split(new))

(* C28: a merge into an existing file only inserts: whatever the path the  *)
(* invocation takes, the lines the file had when it was checked out are    *)
(* all still in the working copy's file, unmodified and in the same order, *)
(* as long as nothing was pulled into it.                                  *)
C28_MergeOnlyInserts ==
    \A i \in Invocations :
        cloned[i] # Absent /\ Count(i, PullCalls) = 0 =>
            /\ wc[i] # Absent
            /\ KeepsLines(cloned[i], wc[i])

----------------------------------------------------------------------------
(* C27: the remote taking fast-forward pushes only, the entry that an      *)
(* acknowledged invocation pushed stays in the remote file whatever later  *)
(* or concurrent invocations do: in every state the remote file holds the  *)
(* entries of all invocations whose push was accepted.                     *)
C27_PushedEntriesStay ==
    \A i \in Invocations :
        Ran(i, "push") /\ outcome[i] = Processed /\ HoldsEntry(pushed[i], req[i]) =>
            HoldsEntry(remote.files[Target(i)], req[i])

----------------------------------------------------------------------------
(* C26: every invocation that commits stages exactly its one target file   *)
(* and gives the commit the message 'LINE <date> <time>' of the event      *)
(* timestamp; two invocations with the same timestamp give the same        *)
(* message.                                                                *)
C26_CommitOfTargetFile ==
    /\ \A i \in Invocations :
          Ran(i, "commit") =>
              /\ committed[i].files = {Target(i)}
              /\ committed[i].message =
                    <<"LINE", SP>> \o DateStr(req[i].ts) \o <<SP>> \o TimeStr(req[i].ts)
    /\ \A i, j \in Invocations :
          Ran(i, "commit") /\ Ran(j, "commit") /\ req[i].ts = req[j].ts =>
              committed[i].message = committed[j].message

----------------------------------------------------------------------------
(* The entry formatter of src/unnamed/part_002, lines 253-449: a text made *)
(* of several '<time> content' segments gives one line per segment.        *)
(*                                                                         *)
(* timePattern is /(\d{1,2}:\d{2})\s+([^-]+?)(?=\s+-\s+\d{1,2}:\d{2}|$)/g.  *)
(* A clock time in the text is one token, so \d{1,2}:\d{2} matches exactly  *)
(* a time token.                                                           *)

IsTime(c) == c \in {TimeTok[k] : k \in 1..Len(TimeTok)}

AllWs(text, a, b) == \A q \in a..b : IsWs(text[q])

(* (?=\s+-\s+\d{1,2}:\d{2}|$) at position q *)
LookAhead(text, q) ==
    \/ q = Len(text) + 1
    \/ \E h \in (q + 1)..Len(text), t \in (q + 3)..Len(text) :
          /\ h + 2 <= t
          /\ AllWs(text, q, h - 1)
          /\ text[h] = "-"
          /\ AllWs(text, h + 1, t - 1)
          /\ IsTime(text[t])

NoMatch == [time |-> "", content |-> <<>>, end |-> 0]

(* One attempt of timePattern at position p: \s+ is greedy and gives back  *)
(* whitespace when the rest fails, [^-]+? is lazy and takes the fewest      *)
(* characters that reach the lookahead.                                    *)
TimePatternAt(text, p) ==
    LET n == Len(text)
        Fits(w, c) ==
            /\ p + w + c <= n
            /\ AllWs(text, p + 1, p + w)
            /\ \A q \in (p + w + 1)..(p + w + c) : text[q] # "-"
            /\ LookAhead(text, p + w + c + 1)
        Widths == {w \in 1..n : \E c \in 1..n : Fits(w, c)}
    IN  IF ~IsTime(text[p]) \/ Widths = {} THEN NoMatch
        ELSE LET w == CHOOSE x \in Widths : \A y \in Widths : y <= x
                 Lens == {c \in 1..n : Fits(w, c)}
                 c == CHOOSE x \in Lens : \A y \in Lens : x <= y
             IN  [time |-> text[p],
                  content |-> SubSeq(text, p + w + 1, p + w + c),
                  end |-> p + w + c]

(* [...text.matchAll(timePattern)]: the leftmost match from pos on, then   *)
(* the matches after its end                                               *)
RECURSIVE MatchAll(_, _)
MatchAll(text, pos) ==
    LET hits == {p \in pos..Len(text) : TimePatternAt(text, p) # NoMatch}
    IN  IF hits = {} THEN <<>>
        ELSE LET p == CHOOSE x \in hits : \A y \in hits : x <= y
                 m == TimePatternAt(text, p)
             IN  <<m>> \o MatchAll(text, m.end + 1)

RECURSIVE SegmentLines(_)
SegmentLines(matches) ==
    IF matches = <<>> THEN <<>>
    ELSE <<"-", SP, matches[1].time, SP>> \o Trim(matches[1].content) \o <<NL>>
             \o SegmentLines(Tail(matches))

(* mutant: the lines of the segments carry the invocation time *)
BatchLineInvocationTime(text, ts) ==
    LET matches == MatchAll(text, 1)
        stamped == [k \in 1..Len(matches) |->
                       [matches[k] EXCEPT !.time = TimeStr(ts)[1]]]
    IN  IF Len(matches) > 1 THEN SegmentLines(stamped)
        ELSE <<"-", SP>> \o TimeStr(ts) \o <<SP>> \o text \o <<NL>>

(* mutant: one match of the pattern is enough to split *)
BatchLineSplitsOne(text, ts) ==
    LET matches == MatchAll(text, 1)
    IN  IF Len(matches) > 0 THEN SegmentLines(matches)
        ELSE <<"-", SP>> \o TimeStr(ts) \o <<SP>> \o text \o <<NL>>

(* `line` of processGitOperations *)
BatchLine(text, ts) ==
    LET matches == MatchAll(text, 1)
    IN  IF Len(matches) > 1 THEN SegmentLines(matches)
        ELSE <<"-", SP>> \o TimeStr(ts) \o <<SP>> \o text \o <<NL>>

(* Formatter harness: texts put together from a few chunks *)
MaxChunks == 5

Chunks == {<<"t0", SP, "a">>, <<"t1", SP, "b">>, <<SP, "-", SP>>, <<"-">>, <<SP>>,
           <<"a">>, <<"t1">>}

(* Three segments, one of them with a hyphen in its content *)
LongTexts ==
    {<<"t0", SP, "a", SP, "-", SP, "t1", SP, "b", "-", "a", SP, "-", SP, "t0", SP, "b">>,
     <<"t0", SP, "a", "-", "b", SP, "-", SP, "t1", SP, "b", SP, "-", SP, "t0", SP, "a">>}

FormatTexts ==
    {Flatten(cs) : cs \in UNION {[1..n -> Chunks] : n \in 1..MaxChunks}} \cup LongTexts

FormatInit ==
    /\ layout = "marker"
    /\ remote = [head |-> 0, files |-> EmptyVault]
    /\ PipeInit
    /\ mfile = EmptyVault
    /\ mlog = <<>>
    /\ fmt \in [text : FormatTexts, ts : {0, 1}, line : {Unformatted}]

(* main trims the text and processGitOperations formats it *)
Format ==
    /\ fmt.line = Unformatted
    /\ fmt' = [fmt EXCEPT !.text = Trim(@), !.line = BatchLine(Trim(fmt.text), fmt.ts)]
    /\ UNCHANGED <<layout, pipeVars, mfile, mlog>>

SpecFormat == FormatInit /\ [][Format]_vars

----------------------------------------------------------------------------
(* A text cut at its hyphens *)
RECURSIVE HyphenSplit(_)
HyphenSplit(s) ==
    LET at == {k \in 1..Len(s) : s[k] = "-"}
    IN  IF at = {} THEN <<s>>
        ELSE LET k == CHOOSE m \in at : \A n \in at : m <= n
             IN  <<SubSeq(s, 1, k - 1)>> \o HyphenSplit(SubSeq(s, k + 1, Len(s)))

(* Piece k of n is a '<time> content' segment set off from its neighbours  *)
(* by whitespace                                                           *)
WellFormedPiece(piece, k, n) ==
    LET q == TrimStart(piece)
    IN  /\ k > 1 => piece # <<>> /\ IsWs(piece[1])
        /\ k < n => piece # <<>> /\ IsWs(piece[Len(piece)])
        /\ Len(q) >= 3
        /\ IsTime(q[1])
        /\ IsWs(q[2])
        /\ Trim(Tail(q)) # <<>>

(* The text is two or more well-formed segments separated by ' - ' *)
WellFormedSegments(text) ==
    LET pieces == HyphenSplit(text)
    IN  /\ Len(pieces) >= 2
        /\ \A k \in 1..Len(pieces) : WellFormedPiece(pieces[k], k, Len(pieces))

RECURSIVE LinesOfPieces(_)
LinesOfPieces(pieces) ==
    IF pieces = <<>> THEN <<>>
    ELSE LET q == TrimStart(pieces[1])
         IN  <<"-", SP, q[1], SP>> \o Trim(Tail(q)) \o <<NL>>
                 \o LinesOfPieces(Tail(pieces))

(* C22: for a text made of two or more well-formed '<time> content'        *)
(* segments separated by ' - ' the formatter emits one line per segment,   *)
(* in order, each with the segment's own time and its trimmed content.     *)
C22_OneLinePerSegment ==
    fmt.line # Unformatted /\ WellFormedSegments(fmt.text) =>
        fmt.line = LinesOfPieces(HyphenSplit(fmt.text))

C22_Witness ==
    /\ fmt.text = <<"t0", SP, "a", SP, "-", SP, "t1", SP, "b", SP, "-", SP, "t0", SP, "a">>
    /\ fmt.ts = 1
    /\ WellFormedSegments(fmt.text)
    /\ fmt.line = <<"-", SP, "t0", SP, "a", NL, "-", SP, "t1", SP, "b", NL,
                    "-", SP, "t0", SP, "a", NL>>

(* C23: a text that holds a hyphen and in which the time pattern matches   *)
(* fewer than two segments is not split: the formatter emits one line with *)
(* the invocation time and the whole trimmed text, hyphen included.        *)
C23_HyphenIsContent ==
    (/\ fmt.line # Unformatted
     /\ \E k \in 1..Len(fmt.text) : fmt.text[k] = "-"
     /\ Len(MatchAll(fmt.text, 1)) < 2) =>
        fmt.line = <<"-", SP>> \o TimeStr(fmt.ts) \o <<SP>> \o fmt.text \o <<NL>>

C23_Witness ==
    /\ fmt.text = <<"t0", SP, "a", "-", "a", SP, "-", SP, "t1", SP, "b">>
    /\ fmt.ts = 1
    /\ Len(MatchAll(fmt.text, 1)) = 1
    /\ fmt.line = <<"-", SP, "t1", SP>> \o fmt.text \o <<NL>>

----------------------------------------------------------------------------
(* Merge engine of src/unnamed/part_002, lines 253-449: the lines of one   *)
(* message are appended as a batch, followed by a hidden comment that      *)
(* names the message.                                                      *)

NoId == "none"
Ids == {"m1", "m2"}

(* `<!-- MSG:${messageId} -->` *)
Marker(messageId) == <<"<!--", messageId, "-->">>

(* mutant: only the content is looked for, the marker is not *)
BatchIsDuplicateByContent(existingContent, line, messageId) ==
    Includes(existingContent, Trim(line))

BatchIsDuplicate(existingContent, line, messageId) ==
    \/ Includes(existingContent, Trim(line))
    \/ messageId # NoId /\ Includes(existingContent, Marker(messageId))

FinalContent(line, messageId) ==
    IF messageId # NoId THEN line \o Marker(messageId) \o <<NL>> ELSE line

MergeBatch(file, m) ==
    LET line == BatchLine(Trim(m.text), m.ts)
    IN  IF file = Absent
        THEN [dup |-> FALSE, file |-> HEADER \o FinalContent(line, m.id)]
        ELSE IF BatchIsDuplicate(file, line, m.id)
        THEN [dup |-> TRUE, file |-> file]
        ELSE [dup |-> FALSE,
              file |-> file \o (IF NeedsNewline(file) THEN <<NL>> ELSE <<>>)
                            \o FinalContent(line, m.id)]

(* Batch harness: some messages are merged one after the other *)
BatchTexts ==
    {<<"a">>, <<"b">>, <<"t0", SP, "a", SP, "-", SP, "t1", SP, "b">>, Marker("m1")}

BatchMessages == [text : BatchTexts, ts : {0}, id : Ids \cup {NoId}]

BatchInitFiles ==
    {Absent, <<>>, HEADER,
     HEADER \o <<"-", SP, "t1", SP, "b", NL>> \o Marker("m2") \o <<NL>>}

BatchInit ==
    /\ layout = "marker"
    /\ remote = [head |-> 0, files |-> EmptyVault]
    /\ PipeInit
    /\ mfile \in {[EmptyVault EXCEPT !["d0"] = f] : f \in BatchInitFiles}
    /\ mlog = <<>>
    /\ fmt = NoFormat

BatchStep ==
    /\ Len(mlog) < MaxMerges
    /\ \E m \in BatchMessages :
          LET path == TargetPath(m.ts)
              r == MergeBatch(mfile[path], m)
          IN  /\ mfile' = [mfile EXCEPT ![path] = r.file]
              /\ mlog' = Append(mlog, [msg |-> m,
                                       before |-> mfile[path],
                                       applied |-> ~r.dup,
                                       after |-> r.file])
    /\ UNCHANGED <<layout, pipeVars, fmt>>

SpecBatch == BatchInit /\ [][BatchStep]_vars

----------------------------------------------------------------------------
(* The lines the formatter makes of a message *)
BatchLinesOf(m) == Split(TrimEnd(BatchLine(Trim(m.text), m.ts)))

(* C24: when a message gives several lines and the file already holds any  *)
(* one of them, the merge writes none of the lines and reports             *)
(* applied = false.                                                        *)
C24_BatchDuplicateIsAtomic ==
    \A k \in 1..Len(mlog) :
        LET lines == BatchLinesOf(mlog[k].msg)
        IN  (/\ mlog[k].before # Absent
             /\ Len(lines) > 1
             /\ \E j \in 1..Len(lines) : HoldsWholeLines(mlog[k].before, lines[j])) =>
                /\ ~mlog[k].applied
                /\ mlog[k].after = mlog[k].before

----------------------------------------------------------------------------
(* How often the marker of a message id is in the content *)
MarkerCount(content, messageId) ==
    IF content = Absent THEN 0
    ELSE Cardinality({p \in 1..Len(content) : MatchAt(content, Marker(messageId), p)})

(* An applied merge of a message with an id writes the entry and right     *)
(* after it the marker of that id                                          *)
WritesMarker ==
    \A k \in 1..Len(mlog) :
        LET m == mlog[k].msg
        IN  mlog[k].applied /\ m.id # NoId =>
                Includes(mlog[k].after,
                         BatchLine(Trim(m.text), m.ts) \o Marker(m.id) \o <<NL>>)

(* A merge of a message whose id has its marker in the file is skipped,    *)
(* whatever the text                                                       *)
SkipsMarked ==
    \A k \in 1..Len(mlog) :
        LET m == mlog[k].msg
        IN  m.id # NoId /\ MarkerCount(mlog[k].before, m.id) > 0 =>
                ~mlog[k].applied /\ mlog[k].after = mlog[k].before

MarkerInText ==
    \E k \in 1..Len(mlog), id \in Ids : Includes(mlog[k].msg.text, Marker(id))

----------------------------------------------------------------------------
(* C31: an invocation makes at most one commit and writes its entry at     *)
(* most once, whatever the number of push attempts: once the first push    *)
(* was tried, only pushes, waits and pulls follow, and an invocation that  *)
(* pushed has made exactly one commit.                                     *)
C31_OneCommitPerInvocation ==
    \A i \in Invocations :
        /\ Count(i, {"commit"}) <= 1
        /\ Count(i, EntryWrites) <= 1
        /\ Count(i, PushCalls) > 0 => Count(i, {"commit"}) = 1
        /\ \A k \in 1..Len(ops[i]) :
              After(i, k, PushCalls) => ops[i][k] \in PushCalls \cup PullCalls \cup {"wait"}

C31_Witness ==
    \E i \in Invocations :
        /\ Count(i, {"pushFail"}) = 2
        /\ Ran(i, "pullFail")
        /\ Ran(i, "push")
        /\ ~isDuplicate[i]
        /\ Count(i, {"commit"}) = 1
        /\ Count(i, EntryWrites) = 1

----------------------------------------------------------------------------
(* The first event of the request main was called with is a text message *)
FirstIsText(r) == r.events # <<>> /\ r.events[1].type = "text"

(* C32: main handles at most the first event of a request: the message it  *)
(* processes is that of the first event, one clone and one merge run at    *)
(* most, the commit stages the file of the first event only, the file is   *)
(* the clone's with the first event merged, and a request whose first      *)
(* event is no text message is ignored whatever events follow.             *)
C32_FirstEventOnly ==
    \A i \in Invocations :
        Called(i) =>
            /\ req[i] # NoMsg => FirstIsText(event[i]) /\ req[i] = event[i].events[1].msg
            /\ Count(i, {"clone", "cloneFail"}) <= 1
            /\ Count(i, {"read", "readFail"}) <= 1
            /\ Count(i, EntryWrites) <= 1
            /\ committed[i] # NoCommit =>
                  committed[i].files = {TargetPath(event[i].events[1].msg.ts)}
            /\ (/\ Ran(i, "commit")
                /\ Count(i, PullCalls) = 0
                /\ Count(i, FileFailures) = 0
                /\ Ran(i, "accessFail") => cloned[i] = Absent) =>
                  wc[i] = MergeFile(cloned[i], event[i].events[1].msg).file
            /\ (event[i].signature = "good" /\ event[i].body = "json"
                    /\ ~FirstIsText(event[i])) =>
                  outcome[i] = Ignored /\ ops[i] = <<>>

C32_Witness ==
    \E i \in Invocations :
        /\ event[i].events = <<FirstText, LaterText>>
        /\ event[i].signature = "good"
        /\ outcome[i] = Processed
        /\ Ran(i, "push")
        /\ Count(i, PullCalls) = 0
        /\ req[i] = FirstText.msg
        /\ HoldsEntry(pushed[i], FirstText.msg)
        /\ ~HoldsEntry(pushed[i], LaterText.msg)

----------------------------------------------------------------------------
(* A text without its whitespace *)
Squeeze(s) == SelectSeq(s, LAMBDA c : ~IsWs(c))

(* The emitted lines put together again: each line without its '- ', the   *)
(* lines joined by a hyphen                                                *)
RECURSIVE Rejoined(_)
Rejoined(lines) ==
    IF lines = <<>> THEN <<>>
    ELSE IF Len(lines) = 1 THEN SubSeq(lines[1], 3, Len(lines[1]))
    ELSE SubSeq(lines[1], 3, Len(lines[1])) \o <<"-">> \o Rejoined(Tail(lines))

(* C33: when the formatter splits a text into several lines, the lines     *)
(* cover the whole text: put together again they give the text back, up to *)
(* whitespace, so no segment and no other part of the text is dropped.     *)
C33_SplitCoversText ==
    fmt.line # Unformatted /\ Len(MatchAll(fmt.text, 1)) > 1 =>
        Squeeze(Rejoined(Split(TrimEnd(fmt.line)))) = Squeeze(fmt.text)

----------------------------------------------------------------------------
(* Line n of the lines is a date header, surrounding blanks aside *)
IsHeaderAt(lines, n) == IsDateLine(Trim(lines[n]))

(* The lines hold the entry from line n on, and the nearest date header    *)
(* above line n is the date string                                         *)
EntryUnderDate(lines, entry, n, dateStr) ==
    LET wanted == Split(entry)
    IN  /\ n + Len(wanted) - 1 <= Len(lines)
        /\ SubSeq(lines, n, n + Len(wanted) - 1) = wanted
        /\ \E h \in 1..(n - 1) :
              /\ lines[h] = dateStr
              /\ \A j \in (h + 1)..(n - 1) : ~IsHeaderAt(lines, j)

(* Each date string is a header line of the content at most once *)
HeadersUnique(content) ==
    LET lines == Split(content)
    IN  \A d \in 1..Len(DateTok) :
            Cardinality({n \in 1..Len(lines) : Trim(lines[n]) = <<DateTok[d]>>}) <= 1

(* Every merged entry is below the header of its message date and above    *)
(* the next header                                                         *)
EntriesUnderOwnDate(content) ==
    LET lines == Split(content)
    IN  \A k \in 1..Len(mlog) :
            mlog[k].applied =>
                \E n \in 1..Len(lines) :
                    EntryUnderDate(lines, EntryOf(mlog[k].msg), n, DateStr(mlog[k].msg.ts))

(* C34 as stated: after any sequence of merges into a topic file that      *)
(* started absent, each date string is a header line at most once and      *)
(* every entry line is below the header of its own message date and above  *)
(* the next date header.                                                   *)
C34_OneBlockPerDate ==
    layout = "topic" /\ mlog # <<>> /\ mlog[1].before = Absent =>
        /\ HeadersUnique(mfile["topic"])
        /\ EntriesUnderOwnDate(mfile["topic"])

(* The text of some merged message has a line that is a date string *)
DateInText ==
    \E k \in 1..Len(mlog) :
        \E n \in 1..Len(Split(mlog[k].msg.text)) : IsHeaderAt(Split(mlog[k].msg.text), n)

(* C34 amended: the same, as long as no merged message text has a line     *)
(* that is a date string.                                                  *)
C34_OneBlockPerDateUnlessDateInText ==
    (layout = "topic" /\ mlog # <<>> /\ mlog[1].before = Absent /\ ~DateInText) =>
        /\ HeadersUnique(mfile["topic"])
        /\ EntriesUnderOwnDate(mfile["topic"])

C34_Witness ==
    /\ layout = "topic"
    /\ Len(mlog) = 3
    /\ mlog[1].before = Absent
    /\ \A k \in 1..3 : mlog[k].applied
    /\ ~DateInText
    /\ mlog[1].msg.ts = mlog[3].msg.ts
    /\ DateStr(mlog[2].msg.ts) # DateStr(mlog[1].msg.ts)
    /\ Len(DateLines(mfile["topic"])) = 2
    /\ EntriesUnderOwnDate(mfile["topic"])

----------------------------------------------------------------------------
(* C35: the wait before the pull that follows failed push attempt n is     *)
(* RETRY_DELAY_MS * n, 1000 ms after the first failure and 2000 ms after   *)
(* the second, so the waits strictly increase; every wait comes right      *)
(* after a failed push and right before the pull, and no wait or pull      *)
(* follows the failure of the last attempt.                                *)
C35_BackoffProportional ==
    \A i \in Invocations :
        /\ Len(delays[i]) = Count(i, {"wait"})
        /\ \A n \in 1..Len(delays[i]) : delays[i][n] = RETRY_DELAY_MS * n
        /\ \A n \in 1..Len(delays[i]) : delays[i][n] = <<1000, 2000>>[n]
        /\ \A n \in 2..Len(delays[i]) : delays[i][n] > delays[i][n - 1]
        /\ \A k \in 1..Len(ops[i]) :
              /\ ops[i][k] = "wait" =>
                    /\ k > 1 /\ ops[i][k - 1] = "pushFail"
                    /\ Count(i, {"pushFail"}) >= Len(delays[i])
                    /\ k < Len(ops[i]) => ops[i][k + 1] \in PullCalls
              /\ ops[i][k] \in PullCalls => k > 1 /\ ops[i][k - 1] = "wait"
        /\ Count(i, {"pushFail"}) = MAX_PUSH_ATTEMPTS =>
              /\ pc[i] = "done"
              /\ ops[i][Len(ops[i])] = "pushFail"
              /\ Len(delays[i]) = MAX_PUSH_ATTEMPTS - 1
              /\ Count(i, PullCalls) = MAX_PUSH_ATTEMPTS - 1

C35_Witness ==
    \E i \in Invocations :
        /\ delays[i] = <<1000, 2000>>
        /\ Count(i, {"pushFail"}) = 3
        /\ outcome[i] = Failed
        /\ ops[i][Len(ops[i])] = "pushFail"

====
